---- MODULE Spec2Model ----
(***************************************************************************)
(* A model of the two command-line tools of the repository:                *)
(*   compare-dns.py  - the batch DNS comparator (script body, lines 46-174) *)
(*   deduplicate.py  - the order-preserving line de-duplicator              *)
(*                                                                         *)
(* Text is modelled as a sequence of character codes, so that strip(),     *)
(* lower(), sorted() and line splitting are computed, not assumed.         *)
(* Lines written to the console and to the log artifacts whose text is     *)
(* never read back are records naming the f-string and its arguments.      *)
(***************************************************************************)
EXTENDS Integers, Sequences, FiniteSets, TLC

VARIABLES
    pc,             \* position in the script body of compare-dns.py
    csv,            \* rows csv.reader yields for the input file
    pos,            \* rows already taken from the reader (enumerate index i = pos - 1)
    recName,        \* recName
    recType,        \* recType
    a1,             \* a1: texts of the answers of resolver 1, or the marker list
    a2,             \* a2
    answer1,        \* answer1
    answer2,        \* answer2
    loopCount,      \* loopCount
    exceptionCount, \* exceptionCount
    mismatchCount,  \* mismatchCount
    spinner,        \* position of the spinning_cursor generator in "|/-\"
    filesOpen,      \* the five artifacts of the with block are open
    stdout,         \* what was written to the console
    logfile,        \* lines of the run log
    identicalLog,   \* lines of the identical list
    problemsFile,   \* lines of the problems CSV
    errlogfile,     \* lines of the error-detail log
    exceptionLog,   \* lines of the exceptions log
    calls,          \* resolution calls issued so far, in order (observation only)
    dpc,            \* position in deduplicate_lines
    infile,         \* content of the input file of deduplicate_lines, unread part
    content,        \* content of the input file of the current pass
    seen,           \* seen
    outfile,        \* text written to outfile
    total_lines,    \* total_lines
    unique_lines,   \* unique_lines
    pass            \* 1: first application, 2: applied to its own output

dnsVars == <<pc, csv, pos, recName, recType, a1, a2, answer1, answer2,
             loopCount, exceptionCount, mismatchCount, spinner, filesOpen,
             stdout, logfile, identicalLog, problemsFile, errlogfile,
             exceptionLog, calls>>

dedupVars == <<dpc, infile, content, seen, outfile, total_lines, unique_lines, pass>>

vars == <<dnsVars, dedupVars>>

----------------------------------------------------------------------------
(* Bounds of the model *)

\* rows in the input file of the comparator
MaxRows == 2

\* answers one resolution call returns
MaxAnswers == 2

\* characters in the input file of the de-duplicator
MaxLen == 5

----------------------------------------------------------------------------
(* Text *)

\* str.isspace for the ASCII range
IsSpace(c) == c \in {9, 10, 11, 12, 13, 28, 29, 30, 31, 32}

RECURSIVE LStrip(_)
LStrip(s) == IF s # <<>> /\ IsSpace(Head(s)) THEN LStrip(Tail(s)) ELSE s

RECURSIVE RStrip(_)
RStrip(s) ==
    IF s # <<>> /\ IsSpace(s[Len(s)]) THEN RStrip(SubSeq(s, 1, Len(s) - 1)) ELSE s

\* str.strip()
Strip(s) == RStrip(LStrip(s))

\* str.startswith("#")
StartsWithHash(s) == Len(s) >= 1 /\ s[1] = 35

LowerChar(c) == IF c >= 65 /\ c <= 90 THEN c + 32 ELSE c

\* str.lower()
Lower(s) == [k \in 1..Len(s) |-> LowerChar(s[k])]

\* [str(a).lower() for a in a1]
LowerAll(a) == [k \in 1..Len(a) |-> Lower(a[k])]

\* s < t for two str values: by code point, a proper prefix first
RECURSIVE StrLess(_, _)
StrLess(s, t) ==
    IF t = <<>> THEN FALSE
    ELSE IF s = <<>> THEN TRUE
    ELSE IF Head(s) # Head(t) THEN Head(s) < Head(t)
    ELSE StrLess(Tail(s), Tail(t))

RECURSIVE InsertSorted(_, _)
InsertSorted(x, l) ==
    IF l = <<>> THEN <<x>>
    ELSE IF StrLess(x, Head(l)) THEN <<x>> \o l
    ELSE <<Head(l)>> \o InsertSorted(x, Tail(l))

RECURSIVE SortAll(_)
SortAll(l) == IF l = <<>> THEN <<>> ELSE InsertSorted(Head(l), SortAll(Tail(l)))

\* the list left in the order the answers came in
Unsorted(l) == l

\* sorted(...)
Sorted(l) == SortAll(l)

\* a marker that leaves the error text out
BadResponseNoText(ex) ==
    << <<98, 97, 100, 32, 114, 101, 115, 112, 111, 110, 115, 101>> >>

\* [f"bad response \"{ex}\""]
BadResponse(ex) ==
    << <<98, 97, 100, 32, 114, 101, 115, 112, 111, 110, 115, 101, 32, 34>> \o ex \o <<34>> >>

\* sorted([str(a).lower() for a in a1])
Answer(a) == Sorted(LowerAll(a))

\* the two fields joined as in the log lines, by a space
ProblemLineSpace(name, type) == name \o <<32>> \o type

\* f"{recName},{recType}"
ProblemLine(name, type) == name \o <<44>> \o type

----------------------------------------------------------------------------
(* Inputs of the comparator *)

\* Rows as csv.reader yields them: a list of fields, [] for an empty line.
\*   ""            "#n,A"        " ,A"        " n"
\*   " n ,A"       "m, MX,x"
Rows ==
    { <<>>,
      << <<35, 110>>, <<65>> >>,
      << <<32>>, <<65>> >>,
      << <<32, 110>> >>,
      << <<32, 110, 32>>, <<65>> >>,
      << <<109>>, <<32, 77, 88>>, <<120>> >> }

Files == UNION { [1..n -> Rows] : n \in 0..MaxRows }

\* if not line or line[0].strip() == "" or line[0].startswith("#")
IsSkipped(line) ==
    IF line = <<>> THEN TRUE
    ELSE IF Strip(line[1]) = <<>> THEN TRUE
    ELSE StartsWithHash(line[1])

\* line[1] raises IndexError
IsMalformed(line) == ~IsSkipped(line) /\ Len(line) < 2

IsValid(line) == ~IsSkipped(line) /\ Len(line) >= 2

\* Texts str(a) of answer records:  A  a  B  ab  and the TXT record
\* "bad response \"t\"" (with the quotes and escapes of its presentation form).
TxtLikeMarker ==
    <<34, 98, 97, 100, 32, 114, 101, 115, 112, 111, 110, 115, 101, 32,
      92, 34, 116, 92, 34, 34>>

RdataTexts == { <<65>>, <<97>>, <<66>>, <<97, 98>>, TxtLikeMarker }

\* Texts str(ex) of the exceptions a resolver raises:  T  t  N
ErrTexts == { <<84>>, <<116>>, <<78>> }

Ok(l) == [ok |-> TRUE, rdata |-> l, ex |-> <<>>]

Fail(e) == [ok |-> FALSE, rdata |-> <<>>, ex |-> e]

\* What res.resolve(recName, recType) does: returns a non-empty answer, or raises.
AllResponses ==
    { Ok(l) : l \in UNION { [1..n -> RdataTexts] : n \in 1..MaxAnswers } }
        \cup { Fail(e) : e \in ErrTexts }

\* The outcomes drawn in runs over several rows.
RunResponses ==
    { Ok(<< <<65>>, <<66>> >>), Ok(<< <<66>>, <<97>> >>), Ok(<< TxtLikeMarker >>),
      Fail(<<84>>), Fail(<<78>>) }

----------------------------------------------------------------------------
(* compare-dns.py *)

\* if loopCount % 100 == 0
ProgressEvery == 100

HeaderLines ==
    << [kind |-> "Starting DNS compare between ip1 versus ip2"],
       [kind |-> "Log file"],
       [kind |-> "Errors logged in"],
       [kind |-> "Exceptions logged in"],
       [kind |-> "Problem items logged in"],
       [kind |-> "Identical items logged in"],
       [kind |-> "-----------------------------"] >>

\* f"Finished. {loopCount} records tested, {mismatchCount} mismatched, {exceptionCount} exceptions."
Finished(l, m, e) == [kind |-> "Finished", tested |-> l, mismatched |-> m, exceptions |-> e]

\* f"Ignoring bad data at line {lineNumber}: \"{exIndex}\""
BadData(n) == [kind |-> "Ignoring bad data", line |-> n, ex |-> "list index out of range"]

\* f"Exception from {ip}: {recName} {recType}: \"{ex}\""
ExceptionFrom(ip, name, type, ex) ==
    [kind |-> "Exception from", ip |-> ip, name |-> name, type |-> type, ex |-> ex]

\* f"    {ip[0]:>16}: {answer}"
RawLine(ip, answer) == [kind |-> "raw", ip |-> ip, answer |-> answer]

\* f"{recName} {recType}: mismatch", f"{recName} {recType}: OK identical", f"{recName} {recType}:"
Outcome(kind, name, type) == [kind |-> kind, name |-> name, type |-> type]

\* what spin(spinner) writes to the console, loopCount being the new count
SpinOutput(glyph, count) ==
    << [kind |-> "glyph", n |-> glyph], [kind |-> "backspace", n |-> 1] >>
        \o (IF count % ProgressEvery = 0
            THEN << [kind |-> "backspace", n |-> 30],
                    [kind |-> "records tested", n |-> count] >>
            ELSE <<>>)

DedupIdle ==
    /\ dpc = "idle"
    /\ infile = <<>>
    /\ content = <<>>
    /\ seen = {}
    /\ outfile = <<>>
    /\ total_lines = 0
    /\ unique_lines = 0
    /\ pass = 0

DnsInitial(files) ==
    /\ pc = "start"
    /\ csv \in files
    /\ pos = 0
    /\ recName = <<>>
    /\ recType = <<>>
    /\ a1 = <<>>
    /\ a2 = <<>>
    /\ answer1 = <<>>
    /\ answer2 = <<>>
    /\ loopCount = 0
    /\ exceptionCount = 0
    /\ mismatchCount = 0
    /\ spinner = 0
    /\ filesOpen = FALSE
    /\ stdout = <<>>
    /\ logfile = <<>>
    /\ identicalLog = <<>>
    /\ problemsFile = <<>>
    /\ errlogfile = <<>>
    /\ exceptionLog = <<>>
    /\ calls = <<>>

\* The state at line 84: arguments read, counters zero, nothing opened yet.
Init == DnsInitial(Files) /\ DedupIdle

\* with open(...) as ...: the header on the console and in the run log
Start ==
    /\ pc = "start"
    /\ filesOpen' = TRUE
    /\ stdout' = stdout \o << [kind |-> ""] >> \o HeaderLines \o << [kind |-> ""] >>
    /\ logfile' = logfile \o HeaderLines
    /\ pc' = "read"
    /\ UNCHANGED <<csv, pos, recName, recType, a1, a2, answer1, answer2, loopCount,
                   exceptionCount, mismatchCount, spinner, identicalLog,
                   problemsFile, errlogfile, exceptionLog, calls>>
    /\ UNCHANGED dedupVars

\* for i, line in enumerate(reader): a blank or commented line
SkipRow ==
    /\ pc = "read"
    /\ pos < Len(csv)
    /\ IsSkipped(csv[pos + 1])
    /\ pos' = pos + 1
    /\ UNCHANGED <<pc, csv, recName, recType, a1, a2, answer1, answer2, loopCount,
                   exceptionCount, mismatchCount, spinner, filesOpen, stdout,
                   logfile, identicalLog, problemsFile, errlogfile, exceptionLog,
                   calls>>
    /\ UNCHANGED dedupVars

\* the except branch counting the bad row as a resolver exception
BadRowCounted ==
    /\ pc = "read"
    /\ pos < Len(csv)
    /\ ~IsSkipped(csv[pos + 1])
    /\ Len(csv[pos + 1]) < 2
    /\ loopCount' = loopCount + 1
    /\ spinner' = (spinner + 1) % 4
    /\ recName' = Strip(csv[pos + 1][1])
    /\ exceptionCount' = exceptionCount + 1
    /\ stdout' = stdout \o SpinOutput(spinner, loopCount + 1)
                    \o << [kind |-> "backspace", n |-> 1], BadData(pos + 1) >>
    /\ logfile' = logfile \o << [kind |-> ""], BadData(pos + 1) >>
    /\ exceptionLog' = Append(exceptionLog, BadData(pos + 1))
    /\ pos' = pos + 1
    /\ UNCHANGED <<pc, csv, recType, a1, a2, answer1, answer2,
                   mismatchCount, filesOpen, identicalLog, problemsFile,
                   errlogfile, calls>>
    /\ UNCHANGED dedupVars

\* spin(spinner); print("", file=logfile); line[1] raises: the except branch
BadRow ==
    /\ pc = "read"
    /\ pos < Len(csv)
    /\ ~IsSkipped(csv[pos + 1])
    /\ Len(csv[pos + 1]) < 2
    /\ loopCount' = loopCount + 1
    /\ spinner' = (spinner + 1) % 4
    /\ recName' = Strip(csv[pos + 1][1])
    /\ stdout' = stdout \o SpinOutput(spinner, loopCount + 1)
                    \o << [kind |-> "backspace", n |-> 1], BadData(pos + 1) >>
    /\ logfile' = logfile \o << [kind |-> ""], BadData(pos + 1) >>
    /\ exceptionLog' = Append(exceptionLog, BadData(pos + 1))
    /\ pos' = pos + 1
    /\ UNCHANGED <<pc, csv, recType, a1, a2, answer1, answer2, exceptionCount,
                   mismatchCount, filesOpen, identicalLog, problemsFile,
                   errlogfile, calls>>
    /\ UNCHANGED dedupVars

\* spin(spinner); print("", file=logfile); recName and recType parsed
GoodRow ==
    /\ pc = "read"
    /\ pos < Len(csv)
    /\ ~IsSkipped(csv[pos + 1])
    /\ Len(csv[pos + 1]) >= 2
    /\ loopCount' = loopCount + 1
    /\ spinner' = (spinner + 1) % 4
    /\ recName' = Strip(csv[pos + 1][1])
    /\ recType' = Strip(csv[pos + 1][2])
    /\ stdout' = stdout \o SpinOutput(spinner, loopCount + 1)
    /\ logfile' = Append(logfile, [kind |-> ""])
    /\ pos' = pos + 1
    /\ pc' = "resolve1"
    /\ UNCHANGED <<csv, a1, a2, answer1, answer2, exceptionCount, mismatchCount,
                   filesOpen, identicalLog, problemsFile, errlogfile,
                   exceptionLog, calls>>
    /\ UNCHANGED dedupVars

\* resolver 1 without the except clause: a failure leaves the loop
Resolve1Aborting(responses) ==
    /\ pc = "resolve1"
    /\ \E r \in responses :
        /\ calls' = Append(calls, [row |-> pos, ep |-> 1, r |-> r])
        /\ IF r.ok
           THEN /\ a1' = r.rdata
                /\ answer1' = Answer(a1')
                /\ pc' = "resolve2"
           ELSE /\ UNCHANGED <<a1, answer1>>
                /\ pc' = "final"
    /\ UNCHANGED <<csv, pos, recName, recType, a2, answer2, loopCount, mismatchCount,
                   spinner, filesOpen, stdout, logfile, identicalLog, problemsFile,
                   errlogfile, exceptionCount, exceptionLog>>
    /\ UNCHANGED dedupVars

\* Lookup in resolver 1, and answer1
Resolve1(responses) ==
    /\ pc = "resolve1"
    /\ \E r \in responses :
        /\ calls' = Append(calls, [row |-> pos, ep |-> 1, r |-> r])
        /\ IF r.ok
           THEN /\ a1' = r.rdata
                /\ UNCHANGED <<exceptionCount, exceptionLog>>
           ELSE /\ exceptionCount' = exceptionCount + 1
                /\ exceptionLog' =
                       Append(exceptionLog, ExceptionFrom("ip1", recName, recType, r.ex))
                /\ a1' = BadResponse(r.ex)
    /\ answer1' = Answer(a1')
    /\ pc' = "resolve2"
    /\ UNCHANGED <<csv, pos, recName, recType, a2, answer2, loopCount, mismatchCount,
                   spinner, filesOpen, stdout, logfile, identicalLog, problemsFile,
                   errlogfile>>
    /\ UNCHANGED dedupVars

\* resolver 2 with the exception counter left alone
Resolve2Uncounted(responses) ==
    /\ pc = "resolve2"
    /\ \E r \in responses :
        /\ calls' = Append(calls, [row |-> pos, ep |-> 2, r |-> r])
        /\ IF r.ok
           THEN /\ a2' = r.rdata
                /\ UNCHANGED exceptionLog
           ELSE /\ exceptionLog' =
                       Append(exceptionLog, ExceptionFrom("ip2", recName, recType, r.ex))
                /\ a2' = BadResponse(r.ex)
    /\ answer2' = Answer(a2')
    /\ pc' = "compare"
    /\ UNCHANGED <<csv, pos, recName, recType, a1, answer1, loopCount, mismatchCount,
                   spinner, filesOpen, stdout, logfile, identicalLog, problemsFile,
                   errlogfile, exceptionCount>>
    /\ UNCHANGED dedupVars

\* Lookup in resolver 2, and answer2
Resolve2(responses) ==
    /\ pc = "resolve2"
    /\ \E r \in responses :
        /\ calls' = Append(calls, [row |-> pos, ep |-> 2, r |-> r])
        /\ IF r.ok
           THEN /\ a2' = r.rdata
                /\ UNCHANGED <<exceptionCount, exceptionLog>>
           ELSE /\ exceptionCount' = exceptionCount + 1
                /\ exceptionLog' =
                       Append(exceptionLog, ExceptionFrom("ip2", recName, recType, r.ex))
                /\ a2' = BadResponse(r.ex)
    /\ answer2' = Answer(a2')
    /\ pc' = "compare"
    /\ UNCHANGED <<csv, pos, recName, recType, a1, answer1, loopCount, mismatchCount,
                   spinner, filesOpen, stdout, logfile, identicalLog, problemsFile,
                   errlogfile>>
    /\ UNCHANGED dedupVars

\* the comparison with the identical branch run unconditionally (no else)
CompareNoElse ==
    /\ pc = "compare"
    /\ IF answer1 # answer2
       THEN /\ mismatchCount' = mismatchCount + 1
            /\ logfile' = logfile
                   \o << Outcome("mismatch", recName, recType),
                         Outcome("OK identical", recName, recType),
                         RawLine("ip1", answer1), RawLine("ip2", answer2) >>
            /\ errlogfile' = errlogfile
                   \o << Outcome("", recName, recType),
                         RawLine("ip1", answer1), RawLine("ip2", answer2) >>
            /\ problemsFile' = Append(problemsFile, ProblemLine(recName, recType))
            /\ identicalLog' = Append(identicalLog, recName)
       ELSE /\ logfile' = logfile
                   \o << Outcome("OK identical", recName, recType),
                         RawLine("ip1", answer1), RawLine("ip2", answer2) >>
            /\ identicalLog' = Append(identicalLog, recName)
            /\ UNCHANGED <<mismatchCount, errlogfile, problemsFile>>
    /\ pc' = "read"
    /\ UNCHANGED <<csv, pos, recName, recType, a1, a2, answer1, answer2, loopCount,
                   exceptionCount, spinner, filesOpen, stdout, exceptionLog, calls>>
    /\ UNCHANGED dedupVars

\* Compare answers, and log raw responses
Compare ==
    /\ pc = "compare"
    /\ IF answer1 # answer2
       THEN /\ mismatchCount' = mismatchCount + 1
            /\ logfile' = logfile
                   \o << Outcome("mismatch", recName, recType),
                         RawLine("ip1", answer1), RawLine("ip2", answer2) >>
            /\ errlogfile' = errlogfile
                   \o << Outcome("", recName, recType),
                         RawLine("ip1", answer1), RawLine("ip2", answer2) >>
            /\ problemsFile' = Append(problemsFile, ProblemLine(recName, recType))
            /\ UNCHANGED identicalLog
       ELSE /\ logfile' = logfile
                   \o << Outcome("OK identical", recName, recType),
                         RawLine("ip1", answer1), RawLine("ip2", answer2) >>
            /\ identicalLog' = Append(identicalLog, recName)
            /\ UNCHANGED <<mismatchCount, errlogfile, problemsFile>>
    /\ pc' = "read"
    /\ UNCHANGED <<csv, pos, recName, recType, a1, a2, answer1, answer2, loopCount,
                   exceptionCount, spinner, filesOpen, stdout, exceptionLog, calls>>
    /\ UNCHANGED dedupVars

\* the reader is exhausted: both with blocks are left, the artifacts are closed
EndOfInput ==
    /\ pc = "read"
    /\ pos = Len(csv)
    /\ filesOpen' = FALSE
    /\ pc' = "final"
    /\ UNCHANGED <<csv, pos, recName, recType, a1, a2, answer1, answer2, loopCount,
                   exceptionCount, mismatchCount, spinner, stdout, logfile,
                   identicalLog, problemsFile, errlogfile, exceptionLog, calls>>
    /\ UNCHANGED dedupVars

\* Final output
FinalOutput ==
    /\ pc = "final"
    /\ stdout' = stdout
           \o << [kind |-> "backspace", n |-> 30],
                 Finished(loopCount, mismatchCount, exceptionCount),
                 Finished(loopCount, mismatchCount, exceptionCount) >>
    /\ pc' = "done"
    /\ UNCHANGED <<csv, pos, recName, recType, a1, a2, answer1, answer2, loopCount,
                   exceptionCount, mismatchCount, spinner, filesOpen, logfile,
                   identicalLog, problemsFile, errlogfile, exceptionLog, calls>>
    /\ UNCHANGED dedupVars

Next ==
    \/ Start
    \/ SkipRow
    \/ BadRow
    \/ GoodRow
    \/ Resolve1(RunResponses)
    \/ Resolve2(RunResponses)
    \/ Compare
    \/ EndOfInput
    \/ FinalOutput

Spec == Init /\ [][Next]_vars

\* Runs over one valid row, with every answer list up to MaxAnswers.
OneRowFiles == { <<row>> : row \in { r \in Rows : IsValid(r) } }

InitCompare == DnsInitial(OneRowFiles) /\ DedupIdle

NextCompare ==
    \/ Start
    \/ GoodRow
    \/ Resolve1(AllResponses)
    \/ Resolve2(AllResponses)
    \/ Compare
    \/ EndOfInput
    \/ FinalOutput

SpecCompare == InitCompare /\ [][NextCompare]_vars

----------------------------------------------------------------------------
(* deduplicate.py *)

\* Contents of the input file: texts over  a  b  and the line feed.
Contents == UNION { [1..n -> {97, 98, 10}] : n \in 0..MaxLen }

\* for line in infile: the next line, its line feed included when it has one
RECURSIVE NextLine(_)
NextLine(text) ==
    IF text = <<>> THEN <<>>
    ELSE IF Head(text) = 10 THEN <<10>>
    ELSE <<Head(text)>> \o NextLine(Tail(text))

DnsIdle ==
    /\ pc = "idle"
    /\ csv = <<>>
    /\ pos = 0
    /\ recName = <<>>
    /\ recType = <<>>
    /\ a1 = <<>>
    /\ a2 = <<>>
    /\ answer1 = <<>>
    /\ answer2 = <<>>
    /\ loopCount = 0
    /\ exceptionCount = 0
    /\ mismatchCount = 0
    /\ spinner = 0
    /\ filesOpen = FALSE
    /\ stdout = <<>>
    /\ logfile = <<>>
    /\ identicalLog = <<>>
    /\ problemsFile = <<>>
    /\ errlogfile = <<>>
    /\ exceptionLog = <<>>
    /\ calls = <<>>

\* deduplicate_lines entered: seen empty, counters zero, the input file opened
InitDedup ==
    /\ DnsIdle
    /\ dpc = "loop"
    /\ content \in Contents
    /\ infile = content
    /\ seen = {}
    /\ outfile = <<>>
    /\ total_lines = 0
    /\ unique_lines = 0
    /\ pass = 1

\* if line not in seen: written, remembered
KeepLine ==
    /\ dpc = "loop"
    /\ infile # <<>>
    /\ NextLine(infile) \notin seen
    /\ total_lines' = total_lines + 1
    /\ outfile' = outfile \o NextLine(infile)
    /\ seen' = seen \cup {NextLine(infile)}
    /\ unique_lines' = unique_lines + 1
    /\ infile' = SubSeq(infile, Len(NextLine(infile)) + 1, Len(infile))
    /\ UNCHANGED <<dpc, content, pass>>
    /\ UNCHANGED dnsVars

\* a line already in seen
DropLine ==
    /\ dpc = "loop"
    /\ infile # <<>>
    /\ NextLine(infile) \in seen
    /\ total_lines' = total_lines + 1
    /\ infile' = SubSeq(infile, Len(NextLine(infile)) + 1, Len(infile))
    /\ UNCHANGED <<dpc, content, seen, outfile, unique_lines, pass>>
    /\ UNCHANGED dnsVars

\* the input is exhausted: deduplicate_lines returns
EndOfFile ==
    /\ dpc = "loop"
    /\ infile = <<>>
    /\ dpc' = "done"
    /\ UNCHANGED <<infile, content, seen, outfile, total_lines, unique_lines, pass>>
    /\ UNCHANGED dnsVars

\* --inplace: the output replaces the input file, and the tool is run on it again
RunAgain ==
    /\ dpc = "done"
    /\ pass = 1
    /\ content' = outfile
    /\ infile' = outfile
    /\ seen' = {}
    /\ outfile' = <<>>
    /\ total_lines' = 0
    /\ unique_lines' = 0
    /\ pass' = 2
    /\ dpc' = "loop"
    /\ UNCHANGED dnsVars

NextDedup ==
    \/ KeepLine
    \/ DropLine
    \/ EndOfFile
    \/ RunAgain

SpecDedup == InitDedup /\ [][NextDedup]_vars

----------------------------------------------------------------------------
(* Observations used by the properties *)

Range(f) == { f[k] : k \in DOMAIN f }

Count(x, l) == Cardinality({ k \in DOMAIN l : l[k] = x })

\* the two lists hold the same texts the same number of times
SameBag(l1, l2) ==
    \A x \in Range(l1) \cup Range(l2) : Count(x, l1) = Count(x, l2)

\* what a resolution call hands to the comparison, before lowering and sorting
ResultTexts(r) ==
    IF r.ok THEN r.rdata
    ELSE << <<98, 97, 100, 32, 114, 101, 115, 112, 111, 110, 115, 101, 32, 34>>
                \o r.ex \o <<34>> >>

LowerTexts(r) == [k \in DOMAIN ResultTexts(r) |-> Lower(ResultTexts(r)[k])]

\* rows whose loop body has run to its end
Completed == IF pc \in {"resolve1", "resolve2", "compare"} THEN pos - 1 ELSE pos

IsValidIndex(k) == IsValid(csv[k])

\* line numbers of the valid rows among the first n
ValidRowsUpTo(n) == SelectSeq([k \in 1..n |-> k], IsValidIndex)

IsOutcomeLine(l) == l.kind \in {"mismatch", "OK identical"}

\* the outcome lines of the run log, one per compared row, in order
OutcomeLines == SelectSeq(logfile, IsOutcomeLine)

\* rows whose two calls are both in calls
Compared == Len(calls) \div 2

FirstCall(j) == calls[2 * j - 1]

SecondCall(j) == calls[2 * j]

RowOf(j) == csv[FirstCall(j).row]

BetweenRows == pc \in {"read", "final", "done"}

----------------------------------------------------------------------------
(* Properties *)

\* C1: processing a malformed row (non-blank, non-comment, fewer than two
\* fields) leaves loopCount unchanged and records a parse-error entry.
C1_MalformedRowNotCounted ==
    [][ (pc = "read" /\ pos < Len(csv) /\ IsMalformed(csv[pos + 1]))
            => (/\ loopCount' = loopCount
                /\ exceptionLog' = Append(exceptionLog, BadData(pos + 1))) ]_vars

\* C2: for every valid row, whatever the two resolution calls return or raise,
\* exactly one of the Identical path and the Mismatch path is taken, and
\* loopCount increases by exactly 1 over the row.
C2_ExactlyOnePath ==
    [][ /\ (pc = "read" /\ pos < Len(csv) /\ IsValid(csv[pos + 1]))
            => (loopCount' = loopCount + 1 /\ pc' = "resolve1")
        /\ (pc \in {"resolve1", "resolve2"})
            => (/\ loopCount' = loopCount
                /\ pc' = (IF pc = "resolve1" THEN "resolve2" ELSE "compare")
                /\ UNCHANGED <<identicalLog, problemsFile, errlogfile, mismatchCount>>)
        /\ (pc = "compare")
            => (/\ loopCount' = loopCount
                /\ pc' = "read"
                /\ (Len(identicalLog') = Len(identicalLog) + 1)
                     # (\/ mismatchCount' # mismatchCount
                        \/ problemsFile' # problemsFile
                        \/ errlogfile' # errlogfile)
                /\ Len(OutcomeLines') = Len(OutcomeLines) + 1) ]_vars

C2_Witness ==
    /\ pc = "done"
    /\ loopCount = 2
    /\ Len(identicalLog) = 1
    /\ Len(problemsFile) = 1
    /\ exceptionCount >= 1

\* C3: when the run is finished, the final summary line is on the console and
\* in the main run log.
C3_SummaryInConsoleAndLog ==
    pc = "done"
        => (/\ Finished(loopCount, mismatchCount, exceptionCount) \in Range(stdout)
            /\ Finished(loopCount, mismatchCount, exceptionCount) \in Range(logfile))

\* C4: for a valid row where exactly one of the two resolution calls fails and
\* the other returns a non-empty answer, the outcome is Mismatch, and the
\* exception counter grows by one for that row (it counts the failed calls).
C4_OneFailureIsMismatch ==
    /\ exceptionCount = Cardinality({ k \in DOMAIN calls : ~calls[k].r.ok })
    /\ \A j \in 1..Len(OutcomeLines) :
          (FirstCall(j).r.ok # SecondCall(j).r.ok)
              => OutcomeLines[j].kind = "mismatch"

C4_Witness ==
    /\ pc = "done"
    /\ Len(OutcomeLines) = 2
    /\ FirstCall(1).r.ok /\ ~SecondCall(1).r.ok
    /\ ~FirstCall(2).r.ok /\ SecondCall(2).r.ok
    /\ exceptionCount = 2
    /\ mismatchCount = 2

\* C5, as stated: for a valid row where both resolution calls fail with
\* identical error text, the two failure markers differ and the outcome is Mismatch.
C5_SameFailureIsMismatch ==
    \A j \in 1..Len(OutcomeLines) :
        (~FirstCall(j).r.ok /\ ~SecondCall(j).r.ok /\ FirstCall(j).r.ex = SecondCall(j).r.ex)
            => OutcomeLines[j].kind = "mismatch"

\* C5, amended: for a valid row where both resolution calls fail, the two
\* failure markers are equal exactly when the error texts are equal after
\* lowering; with identical error text the outcome is therefore Identical, and
\* both failures are counted.
C5_SameFailureIsIdentical ==
    /\ pc = "compare" /\ ~FirstCall(Compared).r.ok /\ ~SecondCall(Compared).r.ok
          => (answer1 = answer2)
                 = (Lower(FirstCall(Compared).r.ex) = Lower(SecondCall(Compared).r.ex))
    /\ \A j \in 1..Len(OutcomeLines) :
          (~FirstCall(j).r.ok /\ ~SecondCall(j).r.ok)
              => /\ (OutcomeLines[j].kind = "OK identical")
                       = (Lower(FirstCall(j).r.ex) = Lower(SecondCall(j).r.ex))
                 /\ FirstCall(j).r.ex = SecondCall(j).r.ex
                       => OutcomeLines[j].kind = "OK identical"
                 /\ exceptionCount = 2

C5_Witness ==
    /\ pc = "done"
    /\ ~FirstCall(1).r.ok /\ ~SecondCall(1).r.ok
    /\ FirstCall(1).r.ex = SecondCall(1).r.ex
    /\ identicalLog # <<>>
    /\ problemsFile = <<>>

\* the calls the rows read so far must have issued, as <<line number, endpoint>>
ExpectedCalls ==
    LET rows == ValidRowsUpTo(Completed)
    IN  [k \in 1..(2 * Len(rows)) |-> <<rows[(k + 1) \div 2], 2 - (k % 2)>>]
            \o (IF pc = "resolve2" THEN << <<pos, 1>> >>
                ELSE IF pc = "compare" THEN << <<pos, 1>>, <<pos, 2>> >>
                ELSE <<>>)

\* C6: for every valid row the call against endpoint A and then the call
\* against endpoint B are both issued, whether or not either fails; a failure
\* never ends the run, and the rows after it are still processed.
C6_BothEndpointsCalled ==
    /\ [k \in DOMAIN calls |-> <<calls[k].row, calls[k].ep>>] = ExpectedCalls
    /\ pc \in {"final", "done"} => pos = Len(csv)

C6_Witness ==
    /\ pc = "done"
    /\ Len(calls) = 4
    /\ ~calls[1].r.ok
    /\ ~calls[2].r.ok
    /\ calls[3].row = 2

\* C7: the comparison is Identical iff the two answer lists are equal as
\* multisets of lower-cased texts, whatever the order of the answers.
C7_IdenticalIffSameBag ==
    /\ pc = "compare"
          => (answer1 = answer2)
                 = SameBag(LowerTexts(FirstCall(Compared).r), LowerTexts(SecondCall(Compared).r))
    /\ \A j \in 1..Len(OutcomeLines) :
          (OutcomeLines[j].kind = "OK identical")
              = SameBag(LowerTexts(FirstCall(j).r), LowerTexts(SecondCall(j).r))

C7_Witness ==
    /\ pc = "done"
    /\ FirstCall(1).r.ok /\ SecondCall(1).r.ok
    /\ FirstCall(1).r.rdata = << <<65>>, <<66>> >>
    /\ SecondCall(1).r.rdata = << <<66>>, <<97>> >>
    /\ identicalLog # <<>>

\* C8: a malformed row is reported on the console, in the run log and in the
\* exceptions log; the exception and mismatch counters and the problems,
\* identical and error-detail artifacts are left alone; the next row is read.
C8_ParseErrorEffects ==
    /\ [][ (pc = "read" /\ pos < Len(csv) /\ IsMalformed(csv[pos + 1]))
             => (/\ Len(stdout') > Len(stdout)
                 /\ stdout'[Len(stdout')] = BadData(pos + 1)
                 /\ Len(logfile') > Len(logfile)
                 /\ logfile'[Len(logfile')] = BadData(pos + 1)
                 /\ exceptionLog' = Append(exceptionLog, BadData(pos + 1))
                 /\ UNCHANGED <<exceptionCount, mismatchCount, problemsFile,
                                identicalLog, errlogfile>>
                 /\ pc' = "read"
                 /\ pos' = pos + 1) ]_vars
    /\ [](pc \in {"final", "done"} => pos = Len(csv))

C8_Witness ==
    /\ pc = "done"
    /\ Len(csv) = 2
    /\ IsMalformed(csv[1])
    /\ BadData(1) \in Range(exceptionLog)
    /\ exceptionCount = 0
    /\ Len(calls) = 2
    /\ calls[1].row = 2

RECURSIVE ProblemsOf(_)
\* the name,type lines of the first j compared rows whose answers differ as multisets
ProblemsOf(j) ==
    IF j = 0 THEN <<>>
    ELSE ProblemsOf(j - 1)
            \o (IF SameBag(LowerTexts(FirstCall(j).r), LowerTexts(SecondCall(j).r))
                THEN <<>>
                ELSE << Strip(RowOf(j)[1]) \o <<44>> \o Strip(RowOf(j)[2]) >>)

RECURSIVE IdenticalOf(_)
\* the names of the first j compared rows whose answers agree as multisets
IdenticalOf(j) ==
    IF j = 0 THEN <<>>
    ELSE IdenticalOf(j - 1)
            \o (IF SameBag(LowerTexts(FirstCall(j).r), LowerTexts(SecondCall(j).r))
                THEN << Strip(RowOf(j)[1]) >>
                ELSE <<>>)

\* C9: after the rows read so far (and so after any run) the problems file
\* holds one name,type line per Mismatch row, in input order, and none for an
\* Identical row; the identical log holds the names of the Identical rows; the
\* mismatch counter is the number of lines of the problems file.
C9_ArtifactsMatchOutcomes ==
    BetweenRows
        => (/\ Compared = Len(ValidRowsUpTo(pos))
            /\ problemsFile = ProblemsOf(Compared)
            /\ identicalLog = IdenticalOf(Compared)
            /\ mismatchCount = Len(problemsFile))

C9_Witness ==
    /\ pc = "done"
    /\ Len(identicalLog) = 1
    /\ problemsFile = << <<109, 44, 77, 88>> >>

RECURSIVE SplitLines(_)
\* the lines of a text, without their line feeds
SplitLines(text) ==
    IF text = <<>> THEN <<>>
    ELSE LET l == NextLine(text)
         IN  << IF l[Len(l)] = 10 THEN SubSeq(l, 1, Len(l) - 1) ELSE l >>
                 \o SplitLines(SubSeq(text, Len(l) + 1, Len(text)))

IsFirstAt(ls, k) == \A j \in 1..(k - 1) : ls[j] # ls[k]

RECURSIVE FirstUpTo(_, _)
FirstUpTo(ls, n) ==
    IF n = 0 THEN <<>>
    ELSE FirstUpTo(ls, n - 1) \o (IF IsFirstAt(ls, n) THEN << ls[n] >> ELSE <<>>)

\* the first occurrence of each distinct line, in first-seen order
FirstOccurrences(ls) == FirstUpTo(ls, Len(ls))

\* C10: the output of deduplicate_lines holds exactly the first occurrence of
\* each distinct input line, in first-seen order, with no line repeated; run
\* on its own output it changes nothing.
C10_DedupFirstOccurrences ==
    dpc = "done"
        => (/\ pass = 1 => SplitLines(outfile) = FirstOccurrences(SplitLines(content))
            /\ pass = 2 => outfile = content)

====
